---------------------------- MODULE Spec2Model ----------------------------
(***************************************************************************)
(* A model of the goadb client library: the shell v2 packet decoder, the   *)
(* FAIL-message classifier and the multi-close wrapper of package wire,    *)
(* and the device watcher (snapshot diff, reconnect, server restart).      *)
(*                                                                         *)
(* Each part has its own specification.  A part that a specification does  *)
(* not use keeps the values given by its Idle predicate.                   *)
(***************************************************************************)
EXTENDS Integers, Sequences, FiniteSets, TLC

VARIABLES
    \* ---- DecodeV2Data ----
    pkts,        \* the complete packets the input starts with (input structure)
    tail,        \* the trailing partial packet of the input, possibly empty
    data,        \* the []byte handed to DecodeV2Data
    stdoutW,     \* the stdout io.Writer: "ok", "fail" (Write errors) or "nil"
    stderrW,     \* the stderr io.Writer
    decoded,     \* the result of the call, or NotCalled
    \* ---- calculateStateDiffs ----
    oldStates,   \* the older snapshot, a map serial -> state
    newStates,   \* the newer snapshot
    diffs,       \* the events returned, or NotCalled
    \* ---- publishDevices (the device watcher) ----
    wpc,              \* where the watcher goroutine stands
    lastKnownStates,  \* the snapshot the next one is compared to
    published,        \* the events sent for the most recent snapshot
    lastErr,          \* watcher.err, "nil" while none is stored
    trace,            \* the server operations so far, with their outcomes
    startCount,       \* MockServerStarter.startCount
    starterCalls,     \* how often the server starter was invoked
    nReads,           \* the ReadMessage calls so far
    lastSnapshot,     \* history: the most recent snapshot received
    chainNew,         \* history: per serial, NewState of its last event
    reconnected,      \* history: "pending" from a ConnectionReset to the
                      \* next snapshot, "justRead" once that one is read
    \* ---- multiCloseable ----
    cpc,           \* per caller: where it stands in Close
    onceDone,      \* closeOnce.done
    onceM,         \* closeOnce.m: the caller holding the mutex, 0 if free
    cErr,          \* the field err of the multiCloseable
    wrappedCloses, \* the results of the Close calls on the wrapped closer
    closeRet,      \* per caller: what its last Close returned
    closeCalls,    \* per caller: the Close calls it has made
    \* ---- adbServerError ----
    request,       \* the request the server answered with FAIL
    serverMsg,     \* the text of the FAIL message, as tokens
    adbErr,        \* the error built, or NotCalled
    \* ---- Device.State ----
    stateCall,     \* the get-state answer handed to State, and what State returned
    \* ---- prepareCommandLine ----
    cmdLine,       \* a command and its arguments, and what prepareCommandLine made of them
    \* ---- Device operations ----
    device,        \* the fields of the Device the operations are called on
    calls,         \* per client: the operation it called, as a stack of frames
    conns,         \* per client: the connections its operation dialed, with their steps
    \* ---- DecodeDataFromReader ----
    readerCall,    \* a stream, the chunks the reader returns it in, and what was decoded
    \* ---- Pull: the bytes it copies ----
    remoteFile,    \* the bytes of the file on the device
    pullPc,        \* where Pull is
    statSize,      \* info.Size, as the STAT session reported it
    recvStream,    \* the bytes the RECV session delivers, DATA chunks joined
    localFile,     \* the bytes written to localFile
    pullRet,       \* the error Pull returned, or NotCalled
    nChanges,      \* how often the file on the device was rewritten
    \* ---- writeFully ----
    wData,         \* the data writeFully was given
    wOffset,       \* its local offset
    wPc,           \* where writeFully is
    wRet,          \* the error it returned, or NotCalled
    writes         \* the Write calls so far: the slice passed, n and err returned

decodeVars == <<pkts, tail, data, stdoutW, stderrW, decoded>>
diffVars == <<oldStates, newStates, diffs>>

watcherVars == <<wpc, lastKnownStates, published, lastErr, trace, startCount,
                 starterCalls, nReads, lastSnapshot, chainNew, reconnected>>

closeVars == <<cpc, onceDone, onceM, cErr, wrappedCloses, closeRet, closeCalls>>
adbErrVars == <<request, serverMsg, adbErr>>
stateVars == <<stateCall>>
cmdLineVars == <<cmdLine>>
deviceVars == <<device, calls, conns>>
readerVars == <<readerCall>>
pullVars == <<remoteFile, pullPc, statSize, recvStream, localFile, pullRet, nChanges>>
writeFullyVars == <<wData, wOffset, wPc, wRet, writes>>

vars == <<decodeVars, diffVars, watcherVars, closeVars, adbErrVars, stateVars, cmdLineVars, deviceVars, readerVars, pullVars, writeFullyVars>>

\* The variables of the other parts, for each part.
notDecodeVars == <<diffVars, watcherVars, closeVars, adbErrVars, stateVars, cmdLineVars, deviceVars, readerVars, pullVars, writeFullyVars>>
notDiffVars == <<decodeVars, watcherVars, closeVars, adbErrVars, stateVars, cmdLineVars, deviceVars, readerVars, pullVars, writeFullyVars>>
notWatcherVars == <<decodeVars, diffVars, closeVars, adbErrVars, stateVars, cmdLineVars, deviceVars, readerVars, pullVars, writeFullyVars>>
notCloseVars == <<decodeVars, diffVars, watcherVars, adbErrVars, stateVars, cmdLineVars, deviceVars, readerVars, pullVars, writeFullyVars>>
notAdbErrVars == <<decodeVars, diffVars, watcherVars, closeVars, stateVars, cmdLineVars, deviceVars, readerVars, pullVars, writeFullyVars>>
notStateVars == <<decodeVars, diffVars, watcherVars, closeVars, adbErrVars, cmdLineVars, deviceVars, readerVars, pullVars, writeFullyVars>>
notCmdLineVars == <<decodeVars, diffVars, watcherVars, closeVars, adbErrVars, stateVars, deviceVars, readerVars, pullVars, writeFullyVars>>
notDeviceVars == <<decodeVars, diffVars, watcherVars, closeVars, adbErrVars, stateVars, cmdLineVars, readerVars, pullVars, writeFullyVars>>
notReaderVars == <<decodeVars, diffVars, watcherVars, closeVars, adbErrVars, stateVars, cmdLineVars, deviceVars, pullVars, writeFullyVars>>
notPullVars == <<decodeVars, diffVars, watcherVars, closeVars, adbErrVars, stateVars, cmdLineVars, deviceVars, readerVars, writeFullyVars>>
notWriteFullyVars == <<decodeVars, diffVars, watcherVars, closeVars, adbErrVars, stateVars, cmdLineVars, deviceVars, readerVars, pullVars>>

NotCalled == [called |-> FALSE]

-----------------------------------------------------------------------------
(***************************************************************************)
(* Bounds and input samples of the decoder.                                *)
(***************************************************************************)
MaxPkts == 2
MaxTail == 5

\* Packet ids put into complete packets: stdout, stderr, exit code and one
\* id the decoder does not know.
PacketIds == {1, 2, 3, 4}
\* Payloads put into complete packets.
Payloads == {<<>>, <<42>>, <<7, 42>>}
\* Bytes a truncated tail is made of (0 is an unknown packet id, 2 a known one;
\* as length bytes they give 0, 2, 512, ... up to 2^25 + ...).
TailBytes == {0, 2}
\* The writers handed to the decoder.
Writers == {"ok", "fail", "nil"}

SeqsUpTo(S, n) == UNION {[1..k -> S] : k \in 0..n}

-----------------------------------------------------------------------------
(***************************************************************************)
(* DecodeV2Data, src/device.go:720-773.                                    *)
(***************************************************************************)

\* binary.LittleEndian.Uint32(b) for a 4-byte slice b.
LittleEndianUint32BE(b) == b[4] + 256 * b[3] + 65536 * b[2] + 16777216 * b[1]
LittleEndianUint32(b) == b[1] + 256 * b[2] + 65536 * b[3] + 16777216 * b[4]

\* binary.LittleEndian.PutUint32: the 4 length bytes of a packet header, as the
\* adb daemon writes them.
PutUint32(n) ==
    <<n % 256, (n \div 256) % 256, (n \div 65536) % 256, (n \div 16777216) % 256>>

\* data[lo:hi] of Go (0-based, hi excluded).
Slice(s, lo, hi) == SubSeq(s, lo + 1, hi)

\* data[offset:], the bytes written to stdout when the packet at offset is
\* not complete.
RestNoHeader(d, offset) ==
    IF offset + 5 > Len(d) THEN <<>> ELSE Slice(d, offset + 5, Len(d))
Rest(d, offset) == Slice(d, offset, Len(d))

\* offset+5 > len(data): the header itself is cut short.
HeaderTruncated(d, offset) == offset + 5 > Len(d)

\* offset+5+int(dataLen) > len(data): the header claims more than remains.
\* int is 64 bits wide on the builds modelled, so the sum cannot wrap.
BodyTruncated(d, offset, dataLen) == offset + 5 + dataLen > Len(d)

\* case 3 of the switch: the first payload byte, when there is one.
ExitCodeResetOnEmpty(exitCode, packetData) ==
    IF Len(packetData) > 0 THEN packetData[1] ELSE 0
ExitCodeOf(exitCode, packetData) ==
    IF Len(packetData) > 0 THEN packetData[1] ELSE exitCode

\* The ids the switch has a case for.
KnownIdAny(packetId) == TRUE
KnownId(packetId) == packetId \in {1, 2, 3}

Result(exitCode, err, out, errOut) ==
    [called |-> TRUE, exitCode |-> exitCode, err |-> err,
     stdout |-> out, stderr |-> errOut]

\* The for loop of DecodeV2Data from `offset` on; out and errOut are the bytes
\* the two writers have accepted so far.
RECURSIVE DecodeLoop(_, _, _, _, _, _, _)
DecodeLoop(d, so, se, offset, exitCode, out, errOut) ==
    IF ~(offset < Len(d)) THEN Result(exitCode, "nil", out, errOut)
    ELSE IF HeaderTruncated(d, offset)
    THEN \* stdout.Write(data[offset:]); its error is dropped
         Result(exitCode, "nil",
                IF so = "ok" THEN out \o Rest(d, offset) ELSE out, errOut)
    ELSE
      LET packetId == d[offset + 1]
          dataLen  == LittleEndianUint32(Slice(d, offset + 1, offset + 5))
      IN IF BodyTruncated(d, offset, dataLen)
         THEN Result(exitCode, "nil",
                     IF so = "ok" THEN out \o Rest(d, offset) ELSE out, errOut)
         ELSE
           LET packetData == Slice(d, offset + 5, offset + 5 + dataLen)
               next       == offset + 5 + dataLen
           IN IF ~KnownId(packetId)
              THEN Result(0, "ParseError", out, errOut)
              ELSE CASE packetId = 1 ->
                          IF so = "nil"
                          THEN DecodeLoop(d, so, se, next, exitCode, out, errOut)
                          ELSE IF so = "fail"
                          THEN Result(exitCode, "WriteError", out, errOut)
                          ELSE DecodeLoop(d, so, se, next, exitCode,
                                          out \o packetData, errOut)
                     [] packetId = 2 ->
                          IF se = "nil"
                          THEN DecodeLoop(d, so, se, next, exitCode, out, errOut)
                          ELSE IF se = "fail"
                          THEN Result(exitCode, "WriteError", out, errOut)
                          ELSE DecodeLoop(d, so, se, next, exitCode,
                                          out, errOut \o packetData)
                     [] OTHER ->
                          DecodeLoop(d, so, se, next,
                                     ExitCodeOf(exitCode, packetData), out, errOut)

DecodeV2Data(d, so, se) == DecodeLoop(d, so, se, 0, 0, <<>>, <<>>)

-----------------------------------------------------------------------------
(***************************************************************************)
(* The inputs of the decoder.  Every byte string is, in exactly one way, a *)
(* run of complete packets followed by a tail that is empty or is a packet *)
(* cut short; the inputs are built from that structure.                    *)
(***************************************************************************)
Packet(id, payload) == [id |-> id, payload |-> payload]

EncodePacket(p) == <<p.id>> \o PutUint32(Len(p.payload)) \o p.payload

RECURSIVE EncodePackets(_)
EncodePackets(ps) ==
    IF ps = <<>> THEN <<>>
    ELSE EncodePacket(Head(ps)) \o EncodePackets(Tail(ps))

\* A tail no packet can be cut from: under 5 bytes, or a header whose length
\* field exceeds what follows it.
PartialTail(t) ==
    \/ Len(t) < 5
    \/ LittleEndianUint32(SubSeq(t, 2, 5)) > Len(t) - 5

AllPackets == {Packet(id, pl) : id \in PacketIds, pl \in Payloads}

IdleDecode ==
    /\ pkts = <<>> /\ tail = <<>> /\ data = <<>>
    /\ stdoutW = "nil" /\ stderrW = "nil" /\ decoded = NotCalled

IdleDiff == oldStates = <<>> /\ newStates = <<>> /\ diffs = NotCalled

IdleWatcher ==
    /\ wpc = "Idle" /\ lastKnownStates = <<>> /\ published = <<>>
    /\ lastErr = "nil" /\ trace = <<>> /\ startCount = 0 /\ starterCalls = 0
    /\ nReads = 0 /\ lastSnapshot = <<>> /\ chainNew = <<>>
    /\ reconnected = "no"

IdleClose ==
    /\ cpc = <<>> /\ onceDone = 0 /\ onceM = 0 /\ cErr = "nil"
    /\ wrappedCloses = <<>> /\ closeRet = <<>> /\ closeCalls = <<>>

IdleAdbErr == request = "" /\ serverMsg = <<>> /\ adbErr = NotCalled

IdleState == stateCall = NotCalled

IdleCmdLine == cmdLine = NotCalled

IdleDevice == device = NotCalled /\ calls = <<>> /\ conns = <<>>

IdleReader == readerCall = NotCalled

IdlePull ==
    /\ remoteFile = <<>> /\ pullPc = "Idle" /\ statSize = 0
    /\ recvStream = <<>> /\ localFile = <<>>
    /\ pullRet = NotCalled /\ nChanges = 0

IdleWriteFully ==
    /\ wData = <<>> /\ wOffset = 0 /\ wPc = "Idle"
    /\ wRet = NotCalled /\ writes = <<>>

InitDecode ==
    /\ IdleDiff /\ IdleWatcher /\ IdleClose /\ IdleAdbErr /\ IdlePull /\ IdleWriteFully
    /\ IdleState /\ IdleCmdLine /\ IdleDevice /\ IdleReader
    /\ pkts \in SeqsUpTo(AllPackets, MaxPkts)
    /\ tail \in {t \in SeqsUpTo(TailBytes, MaxTail) : PartialTail(t)}
    /\ data = EncodePackets(pkts) \o tail
    /\ stdoutW \in Writers
    /\ stderrW \in Writers
    /\ decoded = NotCalled

\* A call of DecodeV2Data(data, stdout, stderr).
Decode ==
    /\ ~decoded.called
    /\ decoded' = DecodeV2Data(data, stdoutW, stderrW)
    /\ UNCHANGED <<pkts, tail, data, stdoutW, stderrW, notDecodeVars>>

NextDecode == Decode

SpecDecode == InitDecode /\ [][NextDecode]_vars

-----------------------------------------------------------------------------
(***************************************************************************)
(* Claims about DecodeV2Data.                                              *)
(***************************************************************************)

\* The payloads of the packets with the given id, concatenated in order.
RECURSIVE PayloadsOf(_, _)
PayloadsOf(ps, id) ==
    IF ps = <<>> THEN <<>>
    ELSE (IF Head(ps).id = id THEN Head(ps).payload ELSE <<>>)
         \o PayloadsOf(Tail(ps), id)

\* The positions of the exit-code packets that carry at least one byte.
ExitPackets(ps) ==
    {i \in 1..Len(ps) : ps[i].id = 3 /\ Len(ps[i].payload) > 0}

Max(S) == CHOOSE x \in S : \A y \in S : y <= x

\* The first payload byte of the last such packet, 0 when there is none.
LastExitCode(ps) ==
    IF ExitPackets(ps) = {} THEN 0 ELSE ps[Max(ExitPackets(ps))].payload[1]

AllIdsValid(ps) == \A i \in 1..Len(ps) : ps[i].id \in {1, 2, 3}

\* Neither writer refuses a Write.
WritersAccept == stdoutW # "fail" /\ stderrW # "fail"

\* C1: for an input that is a concatenation of complete packets with ids 1, 2
\* and 3, DecodeV2Data returns no error, returns the first payload byte of the
\* last exit-code packet with a non-empty payload (0 if none), and has written
\* to stdout the payloads of the id-1 packets and to stderr the payloads of the
\* id-2 packets, each in order (writers that accept what they are given).
C1_DecodeCompletePackets ==
    (decoded.called /\ tail = <<>> /\ AllIdsValid(pkts) /\ WritersAccept)
    => /\ decoded.err = "nil"
       /\ decoded.exitCode = LastExitCode(pkts)
       /\ stdoutW = "ok" => decoded.stdout = PayloadsOf(pkts, 1)
       /\ stderrW = "ok" => decoded.stderr = PayloadsOf(pkts, 2)
       /\ stdoutW = "nil" => decoded.stdout = <<>>
       /\ stderrW = "nil" => decoded.stderr = <<>>

\* An exit-code packet with a payload followed by an empty exit-code packet:
\* the exit code stays that of the first.
C1_Witness ==
    /\ decoded.called
    /\ stdoutW = "ok" /\ stderrW = "ok"
    /\ tail = <<>>
    /\ pkts = <<Packet(3, <<7, 42>>), Packet(3, <<>>)>>
    /\ decoded.exitCode = 7
    /\ decoded.err = "nil"

\* C2: when, at a packet boundary after complete valid packets, fewer than 5
\* bytes remain or the header's length field exceeds the bytes remaining,
\* DecodeV2Data writes exactly the remaining bytes, header included, to stdout,
\* stops, and returns no error and the exit code of the packets before the tail.
C2_TruncatedTailToStdout ==
    (decoded.called /\ tail # <<>> /\ AllIdsValid(pkts) /\ WritersAccept)
    => /\ decoded.err = "nil"
       /\ decoded.exitCode = LastExitCode(pkts)
       /\ stdoutW = "ok" => decoded.stdout = PayloadsOf(pkts, 1) \o tail
       /\ stderrW = "ok" => decoded.stderr = PayloadsOf(pkts, 2)

\* A full header that claims 2 bytes of which none is there, after an
\* exit-code packet.
C2_Witness ==
    /\ decoded.called
    /\ stdoutW = "ok"
    /\ pkts = <<Packet(3, <<42>>)>>
    /\ tail = <<2, 2, 0, 0, 0>>
    /\ decoded.stdout = tail
    /\ decoded.exitCode = 42
    /\ decoded.err = "nil"

\* The first packet whose id is not 1, 2 or 3, or 0 when there is none.
FirstBadPacket(ps) ==
    IF AllIdsValid(ps) THEN 0
    ELSE CHOOSE i \in 1..Len(ps) :
            /\ ps[i].id \notin {1, 2, 3}
            /\ \A j \in 1..(i - 1) : ps[j].id \in {1, 2, 3}

\* C3 as stated: whenever, after complete valid packets, the next packet header
\* carries an id other than 1, 2 or 3, DecodeV2Data returns a ParseError. The
\* header may be that of a complete packet or of the truncated tail.
C3_Original_BadIdIsParseError ==
    (/\ decoded.called
     /\ WritersAccept
     /\ \/ ~AllIdsValid(pkts)
        \/ AllIdsValid(pkts) /\ Len(tail) >= 5 /\ tail[1] \notin {1, 2, 3})
    => decoded.err = "ParseError"

\* C3, amended: DecodeV2Data returns a ParseError (and exit code 0) whenever,
\* after complete valid packets, the next packet is complete (its whole body
\* is present) and carries an id other than 1, 2 or 3; what the writers
\* accepted before that packet stays written.
C3_BadIdOfCompletePacket ==
    (decoded.called /\ WritersAccept /\ ~AllIdsValid(pkts))
    => /\ decoded.err = "ParseError"
       /\ decoded.exitCode = 0
       /\ stdoutW = "ok" =>
            decoded.stdout =
                PayloadsOf(SubSeq(pkts, 1, FirstBadPacket(pkts) - 1), 1)

C3_Witness ==
    /\ decoded.called
    /\ stdoutW = "ok" /\ stderrW = "ok"
    /\ pkts = <<Packet(1, <<7, 42>>), Packet(4, <<42>>)>>
    /\ decoded.err = "ParseError"
    /\ decoded.stdout = <<7, 42>>

-----------------------------------------------------------------------------
(***************************************************************************)
(* The snapshot diff of the device watcher, calculateStateDiffs.  Its code *)
(* is not among the sources; its tests are (src/device.go:394-544).  It is *)
(* modelled from the diff rules of the specification.                      *)
(***************************************************************************)
Serials == {"1", "2", "3"}

\* The states a parsed snapshot can hold; Disconnected stands for "absent"
\* and is never part of a snapshot.
DevStates == {"StateOffline", "StateOnline", "StateUnauthorized", "StateInvalid"}
StateDisconnected == "StateDisconnected"

\* The maps serial -> state over the serials S.
Snapshots(S) == UNION {[D -> DevStates] : D \in SUBSET S}

DeviceStateChangedEvent(serial, old, new) ==
    [Serial |-> serial, OldState |-> old, NewState |-> new]

\* The elements of a set in some order: the order in which a map is ranged
\* over is not specified.
RECURSIVE SeqOf(_)
SeqOf(S) ==
    IF S = {} THEN <<>>
    ELSE LET x == CHOOSE y \in S : TRUE IN <<x>> \o SeqOf(S \ {x})

\* "For each serial present in new but not old".
AddedNone(old, new) == <<>>
Added(old, new) ==
    LET q == SeqOf(DOMAIN new \ DOMAIN old)
    IN [i \in 1..Len(q) |->
            DeviceStateChangedEvent(q[i], StateDisconnected, new[q[i]])]

\* "For each serial present in old but not new".
RemovedAsInvalid(old, new) ==
    LET q == SeqOf(DOMAIN old \ DOMAIN new)
    IN [i \in 1..Len(q) |->
            DeviceStateChangedEvent(q[i], old[q[i]], "StateInvalid")]
Removed(old, new) ==
    LET q == SeqOf(DOMAIN old \ DOMAIN new)
    IN [i \in 1..Len(q) |->
            DeviceStateChangedEvent(q[i], old[q[i]], StateDisconnected)]

\* "For each serial in both, if old[s] != new[s]".
ChangedAlways(old, new) ==
    LET q == SeqOf(DOMAIN old \cap DOMAIN new)
    IN [i \in 1..Len(q) |-> DeviceStateChangedEvent(q[i], old[q[i]], new[q[i]])]
Changed(old, new) ==
    LET q == SeqOf({s \in DOMAIN old \cap DOMAIN new : old[s] # new[s]})
    IN [i \in 1..Len(q) |-> DeviceStateChangedEvent(q[i], old[q[i]], new[q[i]])]

calculateStateDiffs(old, new) ==
    Added(old, new) \o Removed(old, new) \o Changed(old, new)

InitDiff ==
    /\ IdleDecode /\ IdleWatcher /\ IdleClose /\ IdleAdbErr /\ IdlePull /\ IdleWriteFully
    /\ IdleState /\ IdleCmdLine /\ IdleDevice /\ IdleReader
    /\ oldStates \in Snapshots(Serials)
    /\ newStates \in Snapshots(Serials)
    /\ diffs = NotCalled

\* A call of calculateStateDiffs(oldStates, newStates).
CalculateStateDiffs ==
    /\ ~diffs.called
    /\ diffs' = [called |-> TRUE,
                 events |-> calculateStateDiffs(oldStates, newStates)]
    /\ UNCHANGED <<oldStates, newStates, notDiffVars>>

NextDiff == CalculateStateDiffs

SpecDiff == InitDiff /\ [][NextDiff]_vars

\* The state of a serial in a snapshot, Disconnected when it is absent.
StateIn(snapshot, s) ==
    IF s \in DOMAIN snapshot THEN snapshot[s] ELSE StateDisconnected

\* The events of a sequence that are about serial s.
EventsFor(events, s) == {i \in 1..Len(events) : events[i].Serial = s}

\* The events are exactly those of the step from snapshot `old` to `new`: one
\* event {s, state in old, state in new} for a serial whose state differs, and
\* none for any other serial.
IsDiffOf(events, old, new, S) ==
    /\ \A i \in 1..Len(events) :
          /\ events[i].Serial \in S
          /\ events[i].OldState = StateIn(old, events[i].Serial)
          /\ events[i].NewState = StateIn(new, events[i].Serial)
    /\ \A s \in S :
          Cardinality(EventsFor(events, s)) =
              IF StateIn(old, s) # StateIn(new, s) THEN 1 ELSE 0

\* C4: the state diff of old and new holds exactly one event per serial whose
\* state differs, {serial, Disconnected, new[s]} for a serial only in new,
\* {serial, old[s], Disconnected} for one only in old, {serial, old[s], new[s]}
\* for one in both, and no event for a serial with equal states; the diff of
\* a snapshot with itself is empty.
C4_StateDiffExact ==
    diffs.called =>
        /\ IsDiffOf(diffs.events, oldStates, newStates, Serials)
        /\ oldStates = newStates => diffs.events = <<>>

\* Scenario 2 of the specification: one added, one removed, one changed.
C4_Witness ==
    /\ diffs.called
    /\ oldStates = [s \in {"1", "2"} |-> "StateOffline"]
    /\ newStates = ("1" :> "StateOnline") @@ ("3" :> "StateOffline")
    /\ Len(diffs.events) = 3
    /\ \E i \in 1..3 : diffs.events[i] =
            DeviceStateChangedEvent("2", "StateOffline", StateDisconnected)

-----------------------------------------------------------------------------
(***************************************************************************)
(* The device watcher, publishDevices.  Its code is not among the sources; *)
(* its test TestPublishDevicesRestartsServer and the MockServerStarter are *)
(* (src/device.go:562-601).  It is modelled from section 4.5 of the        *)
(* specification where the test leaves the behaviour open, and from the    *)
(* test where the two differ: the test scripts a ConnectionReset on the    *)
(* first read and ServerNotAvailable on the next dial, and asserts one     *)
(* start of the server and no dial after the failed one.  So the server is *)
(* started after the ConnectionReset, before dialing again, and a failed   *)
(* dial ends the watcher (the watcher dials at one place of its loop, so   *)
(* the first dial is taken to behave as the one the test scripts).         *)
(***************************************************************************)
MaxReads == 3

WatchedSerials == {"1", "2"}

\* The errors a Dial, SendMessage, ReadStatus and ReadMessage of the server
\* can return ("nil": none).
DialErrs == {"nil", "ServerNotAvailable", "NetworkError"}
SendErrs == {"nil", "NetworkError"}
StatusErrs == {"nil", "ConnectionResetError", "AdbError"}
ReadErrs == {"ConnectionResetError", "NetworkError"}
\* What the server starter can return.
StartErrs == {"nil", "StartError"}

TrackDevices == "host:track-devices"

\* One entry of MockServer.Trace, with the request sent and the error returned.
Op(op, arg, err) == [op |-> op, arg |-> arg, err |-> err]

\* MockServerStarter.StartServer: a successful start is counted.
StartServerUncounted(count, err) == count
MockStartServer(count, err) == IF err = "nil" THEN count + 1 ELSE count

\* Where the watcher goes when Dial returns err # nil.
AfterDialErrorRestart(err) ==
    IF err = "ServerNotAvailable" THEN "StartServer" ELSE "Terminal"
AfterDialError(err) == "Terminal"

\* Where the watcher goes when ReadMessage returns err.
AfterReadErrorRedial(err) ==
    IF err = "ConnectionResetError" THEN "Dial" ELSE "Terminal"
AfterReadError(err) ==
    IF err = "ConnectionResetError" THEN "StartServer" ELSE "Terminal"

\* The snapshot later ones are compared to once a snapshot was processed.
KeepKnownStates(known, snapshot) == known
UpdateKnownStates(known, snapshot) == snapshot

\* The snapshot the first one after a reconnect is compared to.
ForgetKnownStates(known) == <<>>
KnownStatesOnReconnect(known) == known

Last(q) == q[Len(q)]

\* NewState of the last event about s, or what it was before.
ChainAfter(chain, events) ==
    [s \in WatchedSerials |->
        IF EventsFor(events, s) = {} THEN chain[s]
        ELSE events[Max(EventsFor(events, s))].NewState]

InitWatcher ==
    /\ IdleDecode /\ IdleDiff /\ IdleClose /\ IdleAdbErr /\ IdlePull /\ IdleWriteFully
    /\ IdleState /\ IdleCmdLine /\ IdleDevice /\ IdleReader
    /\ wpc = "Dial"
    /\ lastKnownStates = <<>>
    /\ published = <<>>
    /\ lastErr = "nil"
    /\ trace = <<>>
    /\ startCount = 0
    /\ starterCalls = 0
    /\ nReads = 0
    /\ lastSnapshot = <<>>
    /\ chainNew = [s \in WatchedSerials |-> StateDisconnected]
    /\ reconnected = "no"

\* reportErr(err) and return: the watcher is Terminal.
Terminate(err) == wpc' = "Terminal" /\ lastErr' = err

\* server.Dial().
Dial ==
    /\ wpc = "Dial"
    /\ \E err \in DialErrs :
          /\ trace' = Append(trace, Op("Dial", "", err))
          /\ IF err = "nil"
             THEN wpc' = "Send" /\ lastErr' = lastErr
             ELSE wpc' = AfterDialError(err) /\ lastErr' = err
    /\ UNCHANGED <<lastKnownStates, published, startCount, starterCalls, nReads,
                   lastSnapshot, chainNew, reconnected, notWatcherVars>>

\* SendMessage("host:track-devices") on the dialed connection.
SendMessage ==
    /\ wpc = "Send"
    /\ \E err \in SendErrs :
          /\ trace' = Append(trace, Op("SendMessage", TrackDevices, err))
          /\ IF err = "nil"
             THEN wpc' = "Status" /\ lastErr' = lastErr
             ELSE Terminate(err)
    /\ UNCHANGED <<lastKnownStates, published, startCount, starterCalls, nReads,
                   lastSnapshot, chainNew, reconnected, notWatcherVars>>

\* ReadStatus: OKAY, or the connection is given up.
ReadStatus ==
    /\ wpc = "Status"
    /\ \E err \in StatusErrs :
          /\ trace' = Append(trace, Op("ReadStatus", "", err))
          /\ IF err = "nil"
             THEN wpc' = "Read" /\ lastErr' = lastErr
             ELSE Terminate(err)
    /\ UNCHANGED <<lastKnownStates, published, startCount, starterCalls, nReads,
                   lastSnapshot, chainNew, reconnected, notWatcherVars>>

\* ReadMessage returns a snapshot that parses: its diff to the last known
\* states is published and it becomes the last known states.
ReadSnapshot ==
    /\ wpc = "Read"
    /\ nReads < MaxReads
    /\ \E snapshot \in Snapshots(WatchedSerials) :
          LET events == calculateStateDiffs(lastKnownStates, snapshot)
          IN /\ published' = events
             /\ lastKnownStates' = UpdateKnownStates(lastKnownStates, snapshot)
             /\ lastSnapshot' = snapshot
             /\ chainNew' = ChainAfter(chainNew, events)
    /\ trace' = Append(trace, Op("ReadMessage", "", "nil"))
    /\ nReads' = nReads + 1
    /\ reconnected' = IF reconnected = "pending" THEN "justRead" ELSE "no"
    /\ UNCHANGED <<wpc, lastErr, startCount, starterCalls, notWatcherVars>>

\* ReadMessage returns a message with a malformed line: ParseError, Terminal.
ReadMalformed ==
    /\ wpc = "Read"
    /\ nReads < MaxReads
    /\ trace' = Append(trace, Op("ReadMessage", "", "nil"))
    /\ nReads' = nReads + 1
    /\ Terminate("ParseError")
    /\ UNCHANGED <<lastKnownStates, published, startCount, starterCalls,
                   lastSnapshot, chainNew, reconnected, notWatcherVars>>

\* ReadMessage fails: a ConnectionReset leads to the restart of the server and
\* a reconnect, any other error is Terminal.
ReadError ==
    /\ wpc = "Read"
    /\ nReads < MaxReads
    /\ \E err \in ReadErrs :
          /\ trace' = Append(trace, Op("ReadMessage", "", err))
          /\ wpc' = AfterReadError(err)
          /\ IF AfterReadError(err) = "Terminal"
             THEN lastErr' = err /\ reconnected' = reconnected
             ELSE /\ lastErr' = lastErr
                  /\ reconnected' = "pending"
          /\ lastKnownStates' =
                IF AfterReadError(err) = "Terminal" THEN lastKnownStates
                ELSE KnownStatesOnReconnect(lastKnownStates)
    /\ nReads' = nReads + 1
    /\ UNCHANGED <<published, startCount, starterCalls, lastSnapshot, chainNew,
                   notWatcherVars>>

\* watcher.startServer(): on success dial again, on failure Terminal with the
\* starter's error.
StartServer ==
    /\ wpc = "StartServer"
    /\ \E err \in StartErrs :
          /\ startCount' = MockStartServer(startCount, err)
          /\ IF err = "nil"
             THEN wpc' = "Dial" /\ lastErr' = lastErr
             ELSE Terminate(err)
    /\ starterCalls' = starterCalls + 1
    /\ UNCHANGED <<lastKnownStates, published, trace, nReads, lastSnapshot,
                   chainNew, reconnected, notWatcherVars>>

NextWatcher ==
    \/ Dial
    \/ SendMessage
    \/ ReadStatus
    \/ ReadSnapshot
    \/ ReadMalformed
    \/ ReadError
    \/ StartServer

SpecWatcher == InitWatcher /\ [][NextWatcher]_vars

-----------------------------------------------------------------------------
(***************************************************************************)
(* Claims about the device watcher.                                        *)
(***************************************************************************)

\* This step processes a snapshot.
ReadsSnapshot ==
    /\ Len(trace') = Len(trace) + 1
    /\ Last(trace') = Op("ReadMessage", "", "nil")
    /\ wpc' = "Read"

\* C5: the events published for one serial form a chain, also across
\* reconnects: every event has old # new, its old state is the new state of
\* the serial's previous event (Disconnected for its first event), a snapshot
\* publishes at most one event per serial, and none for a serial whose state
\* is that of the previous snapshot.
C5_EventsChainPerSerial ==
    [][ReadsSnapshot =>
         /\ \A i \in 1..Len(published') :
               /\ published'[i].OldState # published'[i].NewState
               /\ published'[i].OldState = chainNew[published'[i].Serial]
         /\ \A s \in WatchedSerials :
               /\ Cardinality(EventsFor(published', s)) <= 1
               /\ StateIn(lastSnapshot, s) = StateIn(lastSnapshot', s)
                    => EventsFor(published', s) = {}]_vars

\* After a reconnect, serial 1 is still online (no event) and serial 2, seen
\* offline before, is reported online.
C5_Witness ==
    /\ reconnected = "justRead"
    /\ lastSnapshot = [s \in {"1", "2"} |-> "StateOnline"]
    /\ published = <<DeviceStateChangedEvent("2", "StateOffline", "StateOnline")>>
    /\ chainNew = [s \in {"1", "2"} |-> "StateOnline"]

\* C6: after a read failed with ConnectionReset and the watcher reconnected,
\* the first snapshot is compared to the one held before the failure: a device
\* of that snapshot which is now absent gets exactly one event {serial,
\* previous state, Disconnected}, a device present with the same state gets none.
C6_SnapshotKeptAcrossReconnect ==
    [][(ReadsSnapshot /\ reconnected = "pending") =>
         \A s \in DOMAIN lastSnapshot :
            /\ s \notin DOMAIN lastSnapshot' =>
                 /\ Cardinality(EventsFor(published', s)) = 1
                 /\ \A i \in EventsFor(published', s) :
                       published'[i] = DeviceStateChangedEvent(
                                           s, lastSnapshot[s], StateDisconnected)
            /\ (s \in DOMAIN lastSnapshot' /\ lastSnapshot'[s] = lastSnapshot[s])
                 => EventsFor(published', s) = {}]_vars

\* Scenario 5 of the specification: A online, the peer closes, the watcher
\* reconnects, the next snapshot is empty.
C6_Witness ==
    /\ reconnected = "justRead"
    /\ lastSnapshot = <<>>
    /\ lastKnownStates = <<>>
    /\ published = <<DeviceStateChangedEvent("1", "StateOnline", StateDisconnected)>>
    /\ starterCalls = 1

\* The script of TestPublishDevicesRestartsServer: the first read fails with
\* ConnectionReset and the dial after it with ServerNotAvailable.
RestartScript ==
    /\ Len(trace) >= 5
    /\ trace[4] = Op("ReadMessage", "", "ConnectionResetError")
    /\ trace[5] = Op("Dial", "", "ServerNotAvailable")

\* C7: when the first tracking read fails with ConnectionReset and the next
\* dial fails with ServerNotAvailable, the watcher stops with
\* ServerNotAvailable as its last error, the server starter was invoked exactly
\* once, and the server operations are exactly Dial,
\* SendMessage(host:track-devices), ReadStatus, ReadMessage, Dial.
C7_RestartThenFailedDialStops ==
    RestartScript =>
        /\ wpc = "Terminal"
        /\ lastErr = "ServerNotAvailable"
        /\ startCount = 1
        /\ starterCalls = 1
        /\ [i \in 1..Len(trace) |-> <<trace[i].op, trace[i].arg>>] =
              << <<"Dial", "">>, <<"SendMessage", TrackDevices>>,
                 <<"ReadStatus", "">>, <<"ReadMessage", "">>, <<"Dial", "">> >>

C7_Witness ==
    /\ RestartScript
    /\ wpc = "Terminal"
    /\ startCount = 1
    /\ Len(trace) = 5

DialFails ==
    /\ Len(trace') = Len(trace) + 1
    /\ Last(trace').op = "Dial" /\ Last(trace').err # "nil"
ReadFailsWith(err) ==
    /\ Len(trace') = Len(trace) + 1
    /\ Last(trace') = Op("ReadMessage", "", err)

-----------------------------------------------------------------------------
(***************************************************************************)
(* MultiCloseable, src/device.go:702-718.  Close runs the Close of the     *)
(* wrapped ReadWriteCloser inside closeOnce.Do and returns the field err.  *)
(* sync.Once is modelled step by step: the load of done on the fast path,  *)
(* the mutex, the second load of done under the mutex, the call.           *)
(***************************************************************************)
NumCallers == 2
MaxCloseCalls == 2

Callers == 1..NumCallers

\* What the Close of the wrapped ReadWriteCloser can return.
CloseResults == {"nil", "EIO", "EBADF"}

\* Once.Do: the fast path is taken when done is already set.
OnceFastPath(done) == done # 0

\* Once.doSlow, under the mutex: f runs only if done is still unset.
OnceRunsAlways(done) == TRUE
OnceRuns(done) == done = 0

InitClose ==
    /\ IdleDecode /\ IdleDiff /\ IdleWatcher /\ IdleAdbErr /\ IdlePull /\ IdleWriteFully
    /\ IdleState /\ IdleCmdLine /\ IdleDevice /\ IdleReader
    /\ cpc = [p \in Callers |-> "idle"]
    /\ onceDone = 0
    /\ onceM = 0
    /\ cErr = "nil"
    /\ wrappedCloses = <<>>
    /\ closeRet = [p \in Callers |-> "none"]
    /\ closeCalls = [p \in Callers |-> 0]

\* Caller p calls c.Close() and enters closeOnce.Do.
CallClose(p) ==
    /\ cpc[p] = "idle"
    /\ closeCalls[p] < MaxCloseCalls
    /\ closeCalls' = [closeCalls EXCEPT ![p] = @ + 1]
    /\ cpc' = [cpc EXCEPT ![p] = "do"]
    /\ UNCHANGED <<onceDone, onceM, cErr, wrappedCloses, closeRet, notCloseVars>>

\* if o.done.Load() == 0 { o.doSlow(f) }
OnceDo(p) ==
    /\ cpc[p] = "do"
    /\ cpc' = [cpc EXCEPT ![p] = IF OnceFastPath(onceDone) THEN "return" ELSE "lock"]
    /\ UNCHANGED <<onceDone, onceM, cErr, wrappedCloses, closeRet, closeCalls,
                   notCloseVars>>

\* o.m.Lock(), then the second look at done.
OnceLock(p) ==
    /\ cpc[p] = "lock"
    /\ onceM = 0
    /\ IF OnceRuns(onceDone)
       THEN onceM' = p /\ cpc' = [cpc EXCEPT ![p] = "f"]
       ELSE onceM' = 0 /\ cpc' = [cpc EXCEPT ![p] = "return"]
    /\ UNCHANGED <<onceDone, cErr, wrappedCloses, closeRet, closeCalls,
                   notCloseVars>>

\* c.err = c.ReadWriteCloser.Close(); then done is stored and the mutex freed.
OnceF(p) ==
    /\ cpc[p] = "f"
    /\ \E r \in CloseResults :
          /\ wrappedCloses' = Append(wrappedCloses, r)
          /\ cErr' = r
    /\ onceDone' = 1
    /\ onceM' = 0
    /\ cpc' = [cpc EXCEPT ![p] = "return"]
    /\ UNCHANGED <<closeRet, closeCalls, notCloseVars>>

\* return c.err
CloseReturn(p) ==
    /\ cpc[p] = "return"
    /\ closeRet' = [closeRet EXCEPT ![p] = cErr]
    /\ cpc' = [cpc EXCEPT ![p] = "idle"]
    /\ UNCHANGED <<onceDone, onceM, cErr, wrappedCloses, closeCalls, notCloseVars>>

NextClose ==
    \E p \in Callers :
        \/ CallClose(p)
        \/ OnceDo(p)
        \/ OnceLock(p)
        \/ OnceF(p)
        \/ CloseReturn(p)

SpecClose == InitClose /\ [][NextClose]_vars

\* C9: however many Close calls are made, one after another or at once, the
\* Close of the wrapped ReadWriteCloser is invoked exactly once, and every
\* Close call returns the result of that one invocation.
C9_WrappedClosedOnce ==
    /\ Len(wrappedCloses) <= 1
    /\ \A p \in Callers :
          closeRet[p] # "none" =>
              /\ Len(wrappedCloses) = 1
              /\ closeRet[p] = wrappedCloses[1]

\* Both callers have made all their calls; the calls overlapped (caller 2
\* went through the mutex after caller 1 ran f) and all returned EIO.
C9_Witness ==
    /\ \A p \in Callers :
          closeCalls[p] = MaxCloseCalls /\ cpc[p] = "idle" /\ closeRet[p] = "EIO"
    /\ wrappedCloses = <<"EIO">>

-----------------------------------------------------------------------------
(***************************************************************************)
(* adbServerError, src/device.go:640-663.  A server message is a sequence  *)
(* of tokens: the words "device" and "not found", a space, a single quote, *)
(* a newline, and "x" for any other character.  Messages have up to        *)
(* MaxMsgLen tokens.                                                       *)
(***************************************************************************)
MaxMsgLen == 7

Tokens == {"device", "not found", " ", "'", "\n", "x"}

Requests == {"", "host:transport:xyz"}

\* What `.` of the pattern matches: any character but a newline.
DotMatchesAll(t) == TRUE
DotMatches(t) == t # "\n"

\* The pattern device( '.*')? not found as an automaton over tokens. State 0
\* awaits "device"; 1 has read it; 2 has read the space of the group and awaits
\* the quote; 3 is inside the quotes; 4 has read a closing quote; 5 has read the
\* space before "not found"; 6 has matched.
PatternStep(q, t) ==
    CASE q = 0 -> IF t = "device" THEN {1} ELSE {}
      [] q = 1 -> IF t = " " THEN {2, 5} ELSE {}
      [] q = 2 -> IF t = "'" THEN {3} ELSE {}
      [] q = 3 -> (IF DotMatches(t) THEN {3} ELSE {})
                  \cup (IF t = "'" THEN {4} ELSE {})
      [] q = 4 -> IF t = " " THEN {5} ELSE {}
      [] q = 5 -> IF t = "not found" THEN {6} ELSE {}
      [] OTHER -> {6}

\* Regexp.MatchString: the pattern matches somewhere in the text, so a match
\* may start at every position.
RECURSIVE PatternRun(_, _)
PatternRun(states, text) ==
    IF text = <<>> THEN states
    ELSE PatternRun(UNION {PatternStep(q, Head(text)) : q \in states \cup {0}},
                    Tail(text))

deviceNotFoundMessagePattern(text) == 6 \in PatternRun({}, text)

\* fmt.Sprintf of the two message formats.
Message(req, msg) ==
    IF req = "" THEN <<"server error: ">> \o msg
    ELSE <<"server error for ", req, " request: ">> \o msg

adbServerError(req, msg) ==
    [called  |-> TRUE,
     Code    |-> IF deviceNotFoundMessagePattern(msg)
                 THEN "DeviceNotFound" ELSE "AdbError",
     Message |-> Message(req, msg),
     Details |-> [Request |-> req, ServerMsg |-> msg]]

InitAdbErr ==
    /\ IdleDecode /\ IdleDiff /\ IdleWatcher /\ IdleClose /\ IdlePull /\ IdleWriteFully
    /\ IdleState /\ IdleCmdLine /\ IdleDevice /\ IdleReader
    /\ request \in Requests
    /\ \E k \in 0..MaxMsgLen : serverMsg \in [1..k -> Tokens]
    /\ adbErr = NotCalled

\* A call of adbServerError(request, serverMsg).
AdbServerError ==
    /\ ~adbErr.called
    /\ adbErr' = adbServerError(request, serverMsg)
    /\ UNCHANGED <<request, serverMsg, notAdbErrVars>>

NextAdbErr == AdbServerError

SpecAdbErr == InitAdbErr /\ [][NextAdbErr]_vars

\* The text holds, somewhere, "device not found" or "device '...' not found"
\* with no newline between the quotes.
HasDeviceNotFound(m) ==
    \E i \in 1..Len(m) :
        /\ m[i] = "device"
        /\ i + 2 <= Len(m)
        /\ m[i + 1] = " "
        /\ \/ m[i + 2] = "not found"
           \/ /\ m[i + 2] = "'"
              /\ \E k \in (i + 3)..(Len(m) - 2) :
                    /\ m[k] = "'" /\ m[k + 1] = " " /\ m[k + 2] = "not found"
                    /\ \A j \in (i + 3)..(k - 1) : m[j] # "\n"

\* C10: adbServerError yields code DeviceNotFound exactly when the message
\* matches device( '.*')? not found, and AdbError otherwise; in both cases the
\* details carry the request and the raw server message unchanged.
C10_FailClassification ==
    adbErr.called =>
        /\ adbErr.Code = IF HasDeviceNotFound(serverMsg)
                         THEN "DeviceNotFound" ELSE "AdbError"
        /\ adbErr.Details.Request = request
        /\ adbErr.Details.ServerMsg = serverMsg

\* Scenario 6 of the specification: the newer servers' message
\* device 'x' not found.
C10_Witness ==
    /\ adbErr.called
    /\ request = "host:transport:xyz"
    /\ serverMsg = <<"device", " ", "'", "x", "'", " ", "not found">>
    /\ adbErr.Code = "DeviceNotFound"
    /\ adbErr.Details.ServerMsg = serverMsg

-----------------------------------------------------------------------------
(***************************************************************************)
(* Device.State, src/device.go:49-59.  An error text is a sequence of      *)
(* words.  wrapClientError and parseDeviceState are not among the sources  *)
(* and are modelled from the specification.                                *)
(***************************************************************************)
MaxErrWords == 3

Nil == [isNil |-> TRUE]

\* The words of an error text.
ErrWords == {"unauthorized", "Unauthorized", "device", "offline"}
\* The codes of the errors a query can fail with.
QueryErrCodes == {"AdbError", "ServerNotAvailable"}
\* The bodies a successful get-state query can answer.
StateBodies == {"offline", "device", "unauthorized", "bootloader", ""}

Err(code, text) == [isNil |-> FALSE, Code |-> code, Text |-> text]

\* strings.HasPrefix and strings.Contains on sequences of words.
HasPrefix(s, sub) == Len(sub) <= Len(s) /\ SubSeq(s, 1, Len(sub)) = sub

RECURSIVE Contains(_, _)
Contains(s, sub) ==
    IF HasPrefix(s, sub) THEN TRUE
    ELSE IF s = <<>> THEN FALSE
    ELSE Contains(Tail(s), sub)

\* wrapClientError(err, c, operation): nil stays nil, an error is wrapped with
\* the operation and the device.
wrapClientError(err, dev, op) ==
    IF err.isNil THEN Nil
    ELSE [isNil |-> FALSE, Code |-> err.Code, Text |-> err.Text,
          Op |-> op, Device |-> dev, Cause |-> err]

\* parseDeviceState: the state a state word stands for.
parseDeviceState(str) ==
    CASE str = "offline"      -> [state |-> "StateOffline", err |-> Nil]
      [] str = "device"       -> [state |-> "StateOnline", err |-> Nil]
      [] str = "unauthorized" -> [state |-> "StateUnauthorized", err |-> Nil]
      [] OTHER -> [state |-> "StateInvalid",
                   err |-> Err("ParseError", <<"invalid", "device", "state">>)]

\* The test of line 52 on the text of the query's error.
IsUnauthorizedNever(err) == FALSE
IsUnauthorized(err) == Contains(err.Text, <<"unauthorized">>)

\* State(), given what getAttribute("get-state") returned.
DeviceState(dev, attr, err) ==
    IF ~err.isNil
    THEN IF IsUnauthorized(err)
         THEN [state |-> "StateUnauthorized", err |-> Nil]
         ELSE [state |-> "StateInvalid", err |-> wrapClientError(err, dev, "State")]
    ELSE LET parsed == parseDeviceState(attr)
         IN [state |-> parsed.state,
             err |-> wrapClientError(parsed.err, dev, "State")]

TheDevice == "serial:xyz"

InitState ==
    /\ IdleDecode /\ IdleDiff /\ IdleWatcher /\ IdleClose /\ IdlePull /\ IdleWriteFully
    /\ IdleAdbErr /\ IdleCmdLine /\ IdleDevice /\ IdleReader
    /\ \/ \E body \in StateBodies :
             stateCall = [called |-> FALSE, attr |-> body, err |-> Nil]
       \/ \E code \in QueryErrCodes, k \in 0..MaxErrWords :
             \E text \in [1..k -> ErrWords] :
                stateCall = [called |-> FALSE, attr |-> "", err |-> Err(code, text)]

\* A call of State(): the query has returned (attr, err).
CallState ==
    /\ ~stateCall.called
    /\ stateCall' = [stateCall EXCEPT
                        !.called = TRUE] @@
                    [result |-> DeviceState(TheDevice, stateCall.attr, stateCall.err)]
    /\ UNCHANGED notStateVars

NextState == CallState

SpecState == InitState /\ [][NextState]_vars

\* C11: State returns (Unauthorized, no error) whenever the get-state query
\* fails with an error whose text contains unauthorized; for every other query
\* failure it returns (Invalid, a non-nil error); on query success it returns
\* the state the response body stands for.
C11_StateUnauthorizedIsNoError ==
    stateCall.called =>
        LET r == stateCall.result
            e == stateCall.err
        IN /\ (~e.isNil /\ \E i \in 1..Len(e.Text) : e.Text[i] = "unauthorized")
                => r.state = "StateUnauthorized" /\ r.err.isNil
           /\ (~e.isNil /\ \A i \in 1..Len(e.Text) : e.Text[i] # "unauthorized")
                => r.state = "StateInvalid" /\ ~r.err.isNil
           /\ e.isNil => r.state = parseDeviceState(stateCall.attr).state

\* The server answered FAIL with "device unauthorized".
C11_Witness ==
    /\ stateCall.called
    /\ stateCall.err = Err("AdbError", <<"device", "unauthorized">>)
    /\ stateCall.result = [state |-> "StateUnauthorized", err |-> Nil]


-----------------------------------------------------------------------------
(***************************************************************************)
(* prepareCommandLine, src/device.go:293-311.  A string is a sequence of   *)
(* characters.  isBlank and containsWhitespace are not among the sources   *)
(* and are modelled from the specification.                                *)
(***************************************************************************)
MaxCmdLen == 1
MaxArgs == 2
MaxArgLen == 2

Quote == "\""
Whitespace == {" ", "\t"}
Chars == {"a", Quote} \cup Whitespace

\* strings.ContainsRune(arg, '"')
ContainsQuote(str) == \E i \in 1..Len(str) : str[i] = Quote

\* isBlank: nothing but whitespace.
isBlank(str) == \A i \in 1..Len(str) : str[i] \in Whitespace

\* containsWhitespace
containsWhitespace(str) == \E i \in 1..Len(str) : str[i] \in Whitespace

\* fmt.Sprintf("\"%s\"", arg)
Quoted(arg) == <<Quote>> \o arg \o <<Quote>>

\* strings.Join(elems, " ")
RECURSIVE Join(_)
Join(elems) ==
    IF elems = <<>> THEN <<>>
    ELSE IF Len(elems) = 1 THEN elems[1]
    ELSE elems[1] \o <<" ">> \o Join(Tail(elems))

\* What line 302 stores in args[i] for an argument with whitespace.
StoredArgBare(arg) == arg
StoredArg(arg) == Quoted(arg)

\* The loop of lines 297-304 from index i on: the slice it leaves, and the
\* index of the argument it rejected (0 when none).
RECURSIVE QuoteLoop(_, _)
QuoteLoop(args, i) ==
    IF i > Len(args) THEN [args |-> args, bad |-> 0]
    ELSE IF ContainsQuote(args[i]) THEN [args |-> args, bad |-> i]
    ELSE IF containsWhitespace(args[i])
         THEN QuoteLoop([args EXCEPT ![i] = StoredArg(args[i])], i + 1)
         ELSE QuoteLoop(args, i + 1)

\* prepareCommandLine(cmd, args...): the command line, the error, and the
\* caller's slice as the call leaves it.
prepareCommandLine(cmd, args) ==
    IF isBlank(cmd)
    THEN [cmd |-> <<>>, err |-> "AssertionError", args |-> args]
    ELSE LET loop == QuoteLoop(args, 1)
         IN IF loop.bad # 0
            THEN [cmd |-> <<>>, err |-> "ParseError", args |-> loop.args]
            ELSE [cmd |-> IF Len(loop.args) > 0
                          THEN cmd \o <<" ">> \o Join(loop.args)
                          ELSE cmd,
                  err |-> "nil",
                  args |-> loop.args]

InitCmdLine ==
    /\ IdleDecode /\ IdleDiff /\ IdleWatcher /\ IdleClose /\ IdlePull /\ IdleWriteFully
    /\ IdleAdbErr /\ IdleState /\ IdleDevice /\ IdleReader
    /\ \E c \in 0..MaxCmdLen, n \in 0..MaxArgs :
          \E cmd \in [1..c -> Chars] :
             \E args \in [1..n -> UNION {[1..k -> Chars] : k \in 0..MaxArgLen}] :
                cmdLine = [called |-> FALSE, cmd |-> cmd, args |-> args]

\* A call of prepareCommandLine(cmd, args...).
CallPrepareCommandLine ==
    /\ ~cmdLine.called
    /\ cmdLine' = [called |-> TRUE, cmd |-> cmdLine.cmd, args |-> cmdLine.args,
                   result |-> prepareCommandLine(cmdLine.cmd, cmdLine.args)]
    /\ UNCHANGED notCmdLineVars

NextCmdLine == CallPrepareCommandLine

SpecCmdLine == InitCmdLine /\ [][NextCmdLine]_vars

\* The command line the claim describes: the command, then each argument
\* after one space, in double quotes when it contains whitespace.
RECURSIVE SpacedArgs(_)
SpacedArgs(args) ==
    IF args = <<>> THEN <<>>
    ELSE <<" ">>
         \o (IF \E i \in 1..Len(args[1]) : args[1][i] \in Whitespace
             THEN <<Quote>> \o args[1] \o <<Quote>>
             ELSE args[1])
         \o SpacedArgs(Tail(args))

\* C12: prepareCommandLine returns an AssertionError when the command is
\* blank, a ParseError when any argument contains a double quote, and
\* otherwise the command followed by the arguments joined with single spaces,
\* exactly the arguments containing whitespace wrapped in double quotes.
C12_CommandLineQuoting ==
    cmdLine.called =>
        LET r == cmdLine.result
            cmd == cmdLine.cmd
            args == cmdLine.args
            blank == \A i \in 1..Len(cmd) : cmd[i] \in Whitespace
            quoted == \E i \in 1..Len(args) : \E j \in 1..Len(args[i]) : args[i][j] = Quote
        IN /\ blank => r.err = "AssertionError"
           /\ (~blank /\ quoted) => r.err = "ParseError"
           /\ (~blank /\ ~quoted) => r.err = "nil" /\ r.cmd = cmd \o SpacedArgs(args)

\* sh -c "a b" style: one plain argument and one with a space in it.
C12_Witness ==
    /\ cmdLine.called
    /\ cmdLine.cmd = <<"a">>
    /\ cmdLine.args = << <<"a">>, <<"a", " ">> >>
    /\ cmdLine.result.err = "nil"
    /\ cmdLine.result.cmd = <<"a", " ", "a", " ", Quote, "a", " ", Quote>>

\* A second call of prepareCommandLine with the same command and the slice
\* as the first call left it.
SecondCall(call) == prepareCommandLine(call.cmd, call.result.args)

\* C21: prepareCommandLine leaves the caller's argument slice unchanged, on
\* success and on error, so that a second call with the same slice gives the
\* same command line and the same validation outcome.  The code does not do
\* this.
C21_ArgsLeftUnchanged ==
    cmdLine.called =>
        /\ cmdLine.result.args = cmdLine.args
        /\ SecondCall(cmdLine).cmd = cmdLine.result.cmd
        /\ SecondCall(cmdLine).err = cmdLine.result.err


-----------------------------------------------------------------------------
(***************************************************************************)
(* The operations of Device, src/device.go:20-352, called by concurrent    *)
(* clients.  A call is a stack of frames, the innermost function first.    *)
(* dialDevice and getSyncConn are one step each; an operation is a step    *)
(* for each of its own uses of the network, taken with the code before it. *)
(* Every use of the network can succeed or fail.  The                      *)
(* wire package (connections, sync requests, the file reader and writer)   *)
(* and roundTripSingleResponse are not among the sources and are modelled  *)
(* from the specification.                                                 *)
(***************************************************************************)
NumClients == 2

\* Each client calls one operation; the calls overlap or follow one another.
Clients == 1..NumClients

\* type Device struct, lines 20-26.
DeviceFields ==
    [server |-> "server", descriptor |-> TheDevice, deviceListFunc |-> "ListDevices"]

AttributeOps == {"Serial", "DevicePath", "State"}
ShellOps == {"RunCommand", "RunCommandV2"}
SyncOps == {"ListDirEntries", "Stat", "OpenRead", "OpenWrite"}
PublicOps ==
    AttributeOps \cup ShellOps \cup SyncOps \cup {"DeviceInfo", "Remount", "Pull", "Push"}

\* The command lines the shell operations are called with: a plain command,
\* a blank command, an argument with a double quote in it.
CmdInputs ==
    { [cmd |-> <<"a">>, args |-> << <<"a", " ">> >>],
      [cmd |-> <<" ">>, args |-> <<>>],
      [cmd |-> <<"a">>, args |-> << <<Quote>> >>] }
\* The arguments Pull and Push are called with: good ones, an empty remote
\* path, a nil local file.
TransferInputs ==
    { [path |-> "/sdcard/f", file |-> "file"],
      [path |-> "", file |-> "file"],
      [path |-> "/sdcard/f", file |-> "nil"] }
NoInput == [none |-> TRUE]

\* The errors of the steps.
ErrDial == Err("ServerNotAvailable", <<"dial">>)
ErrSend == Err("NetworkError", <<"send">>)
ErrStatus == Err("AdbError", <<"device", "offline">>)
ErrRead == Err("NetworkError", <<"read">>)
ErrDecode == Err("error", <<"unknown", "packet", "id">>)
ErrCopy == Err("error", <<"copy">>)
ErrDone == Err("AdbError", <<"done">>)
ErrListDevices == Err("NetworkError", <<"devices">>)
ErrUnauthorized == Err("AdbError", <<"device", "unauthorized">>)
ErrNotInList == Err("DeviceNotFound", <<"serial">>)
AssertionError(text) == Err("AssertionError", text)

\* errors.WrapErrf(err, "error connecting to device '%s'", c.descriptor)
WrapErrf(err) == Err(err.Code, <<"connecting">> \o err.Text)

\* ---- frames and calls ----
\* No connection: the nil *wire.Conn.
NoConn == <<>>

Frame(fn, pc) ==
    [fn |-> fn, pc |-> pc, conn |-> NoConn, deferred |-> NoConn, pending |-> Nil]

IdleCall == [status |-> "idle"]

NoReturn == [val |-> NoConn, err |-> Nil]

NewCall(op, id, input, stack) ==
    [status |-> "running", op |-> op, id |-> id, input |-> input,
     stack |-> stack, ret |-> NoReturn, acked |-> "none"]

Running(c) == calls[c].status = "running"
Top(c) == calls[c].stack[1]
At(c, fns, pc) == Running(c) /\ Top(c).fn \in fns /\ Top(c).pc = pc

\* The innermost frame replaced by f.
SetTop(call, f) == [call EXCEPT !.stack = <<f>> \o Tail(@)]
\* The innermost frame f calling the functions of the frames fs.
Enter(call, f, fs) == [call EXCEPT !.stack = fs \o <<f>> \o Tail(@)]
\* What the function of frame f returns when the function it called has
\* returned err: each of them returns at once, some wrapping the error
\* (lines 111, 152, 188, 199, 209, 220, 234, 255, 322, 326, 345, 67).
OnCalleeError(f, err) ==
    CASE f.fn = "getSyncConn" -> err
      [] f.fn \in {"RunCommand", "RunCommandV2WithStd"} ->
            wrapClientError(err, TheDevice, "RunCommand")
      [] f.fn = "Remount" -> wrapClientError(err, TheDevice, "Remount")
      [] f.fn \in SyncOps -> wrapClientError(err, TheDevice, f.fn)
      [] f.fn \in {"Pull", "Push"} -> err
      [] f.fn = "DeviceInfo" ->
            wrapClientError(err, TheDevice, "GetDeviceInfo(GetSerial)")

\* The error the client gets when err is returned into the frames of stack.
RECURSIVE ErrorThrough(_, _)
ErrorThrough(stack, err) ==
    IF stack = <<>> THEN err
    ELSE ErrorThrough(Tail(stack), OnCalleeError(stack[1], err))

\* The innermost function returning (val, err): a value goes to its caller,
\* which continues with it (or to the client, when the function is the
\* operation itself); an error goes through all its callers to the client.
ReturnFrom(call, val, err) ==
    IF err.isNil
    THEN [call EXCEPT !.stack = Tail(@),
                      !.ret = [val |-> val, err |-> Nil],
                      !.status = IF Len(call.stack) = 1 THEN "returned" ELSE @]
    ELSE [call EXCEPT !.stack = <<>>,
                      !.ret = [val |-> NoConn,
                               err |-> ErrorThrough(Tail(call.stack), err)],
                      !.status = "returned"]

\* ---- connections ----
\* A connection is named by the client whose operation dialed it and its
\* place among that operation's connections.
NewConn(call) == [owner |-> call.id, op |-> call.op, open |-> TRUE, log |-> <<>>]

ConnRefs(cs) == UNION {{<<c, k>> : k \in 1..Len(cs[c])} : c \in Clients}
ConnAt(cs, r) == cs[r[1]][r[2]]

\* The connection a dial hands out: a new one each time.
DialedConnShared(cs, call) ==
    IF \E r \in ConnRefs(cs) : ConnAt(cs, r).open
    THEN CHOOSE r \in ConnRefs(cs) : ConnAt(cs, r).open
    ELSE <<call.id, Len(cs[call.id]) + 1>>
DialedConn(cs, call) == <<call.id, Len(cs[call.id]) + 1>>

\* server.Dial() by the call: the connections that exist afterwards.
Dialed(cs, call) ==
    LET r == DialedConn(cs, call)
    IN IF r[2] > Len(cs[r[1]]) THEN [cs EXCEPT ![r[1]] = Append(@, NewConn(call))]
       ELSE cs

\* A step on connection r by the call, and how it went.
Use(cs, r, call, step, ok) ==
    [cs EXCEPT ![r[1]][r[2]].log = Append(@, [step |-> step, by |-> call.id, ok |-> ok])]

\* conn.Close(); a nil connection is never closed.
CloseConn(cs, r) == IF r = NoConn THEN cs ELSE [cs EXCEPT ![r[1]][r[2]].open = FALSE]

\* What "defer conn.Close()" registers for the return.
DeferCloseNever(id) == NoConn
DeferClose(id) == id

\* What dialDevice does with the connection when a step on it failed
\* (lines 279 and 284).
AfterTransportFailureLeak(cs, id) == cs
AfterTransportFailure(cs, id) == CloseConn(cs, id)

\* The frames of a call of getSyncConn, which begins by calling dialDevice.
GetSyncConnFrames == <<Frame("dialDevice", "Dial"), Frame("getSyncConn", "SendSync")>>

\* ---- the start of an operation: up to its first use of the network ----
StartFrames(op) ==
    CASE op \in AttributeOps -> <<Frame(op, "GetAttribute")>>
      [] op = "DeviceInfo" ->
            <<Frame("Serial", "GetAttribute"), Frame("DeviceInfo", "ListDevices")>>
      [] op = "RunCommand" ->
            <<Frame("dialDevice", "Dial"), Frame("RunCommand", "SendShell")>>
      [] op = "RunCommandV2" ->
            <<Frame("dialDevice", "Dial"), Frame("RunCommandV2WithStd", "SendShell")>>
      [] op = "Remount" ->
            <<Frame("dialDevice", "Dial"), Frame("Remount", "RoundTrip")>>
      [] op \in SyncOps -> GetSyncConnFrames \o <<Frame(op, "Request")>>
      [] op = "Pull" ->
            GetSyncConnFrames \o <<Frame("Stat", "Request"), Frame("Pull", "OpenRead")>>
      [] op = "Push" ->
            GetSyncConnFrames \o <<Frame("OpenWrite", "Request"), Frame("Push", "Copy")>>

\* The label the shell operations wrap their errors with.
ShellLabel(fn) == "RunCommand"

\* The error an operation returns before it touches the network, or Nil.
EntryError(op, input) ==
    CASE op \in ShellOps ->
            LET line == prepareCommandLine(input.cmd, input.args)
            IN IF line.err = "nil" THEN Nil
               ELSE wrapClientError(Err(line.err, <<"command">>), TheDevice,
                                    ShellLabel(op))
      [] op \in {"Pull", "Push"} ->
            IF input.path = "" THEN AssertionError(<<"remotePath">>)
            ELSE IF input.file = "nil" THEN AssertionError(<<"localFile">>)
            ELSE Nil
      [] OTHER -> Nil

InputsOf(op) ==
    CASE op \in ShellOps -> CmdInputs
      [] op \in {"Pull", "Push"} -> TransferInputs
      [] OTHER -> {NoInput}

InitDevice ==
    /\ IdleDecode /\ IdleDiff /\ IdleWatcher /\ IdleClose /\ IdlePull /\ IdleWriteFully
    /\ IdleAdbErr /\ IdleState /\ IdleCmdLine /\ IdleReader
    /\ device = DeviceFields
    /\ calls = [c \in Clients |-> IdleCall]
    /\ conns = [c \in Clients |-> <<>>]

\* A client calls an operation of the Device.
Call(c) ==
    /\ calls[c].status = "idle"
    /\ \E op \in PublicOps : \E input \in InputsOf(op) :
          LET call == NewCall(op, c, input, StartFrames(op))
              err == EntryError(op, input)
          IN calls' = [calls EXCEPT ![c] =
                          IF err.isNil THEN call
                          ELSE [call EXCEPT !.stack = <<>>, !.status = "returned",
                                            !.ret = [val |-> NoConn, err |-> err]]]
    /\ UNCHANGED <<device, conns, notDeviceVars>>

\* ---- dialDevice, lines 271-289 ----
\* Whether dialDevice goes on after reading the status (line 283): only when
\* the status was OKAY.
StatusAcceptedAlways(ok) == TRUE
StatusAccepted(ok) == ok

\* The whole of dialDevice: the dial, the transport request and its status.
dialDevice(c) ==
    /\ At(c, {"dialDevice"}, "Dial")
    /\ LET call == calls[c]
           id == DialedConn(conns, call)
           dialed == Dialed(conns, call)
           sent(ok) == Use(dialed, id, call, "send host:transport", ok)
           answered(ok) == Use(sent(TRUE), id, call, "read transport status", ok)
       IN \/ /\ calls' = [calls EXCEPT ![c] = ReturnFrom(@, NoConn, ErrDial)]
             /\ UNCHANGED conns
          \/ /\ conns' = AfterTransportFailure(sent(FALSE), id)
             /\ calls' = [calls EXCEPT ![c] = ReturnFrom(@, NoConn, WrapErrf(ErrSend))]
          \/ \E ok \in BOOLEAN :
                IF StatusAccepted(ok)
                THEN /\ conns' = answered(ok)
                     /\ calls' = [calls EXCEPT ![c] = ReturnFrom(@, id, Nil)]
                ELSE /\ conns' = AfterTransportFailure(answered(ok), id)
                     /\ calls' = [calls EXCEPT ![c] = ReturnFrom(@, NoConn, ErrStatus)]
    /\ UNCHANGED <<device, notDeviceVars>>

\* ---- getSyncConn, lines 252-267 ----
\* What getSyncConn does with the connection when a step on it failed
\* (lines 260 and 263): nothing.
AfterSyncFailure(cs, id) == cs

\* dialDevice has returned a connection: the rest of getSyncConn, the sync:
\* request and its status.
getSyncConn(c) ==
    /\ At(c, {"getSyncConn"}, "SendSync")
    /\ LET call == calls[c]
           id == call.ret.val
           sent(ok) == Use(conns, id, call, "send sync:", ok)
           answered(ok) == Use(sent(TRUE), id, call, "read sync status", ok)
       IN \/ /\ conns' = AfterSyncFailure(sent(FALSE), id)
             /\ calls' = [calls EXCEPT ![c] = ReturnFrom(@, NoConn, ErrSend)]
          \/ /\ conns' = AfterSyncFailure(answered(FALSE), id)
             /\ calls' = [calls EXCEPT ![c] = ReturnFrom(@, NoConn, ErrStatus)]
          \/ /\ conns' = answered(TRUE)
             /\ calls' = [calls EXCEPT ![c] = ReturnFrom(@, id, Nil)]
    /\ UNCHANGED <<device, notDeviceVars>>

\* ---- RunCommand, lines 103-129, and RunCommandV2WithStd, lines 144-172 ----
ShellFns == {"RunCommand", "RunCommandV2WithStd"}

\* dialDevice has returned; defer conn.Close(); conn.SendMessage(req)
Shell_SendRequest(c) ==
    /\ At(c, ShellFns, "SendShell")
    /\ LET id == calls[c].ret.val
           label == ShellLabel(Top(c).fn)
       IN \/ /\ conns' = Use(conns, id, calls[c], "send shell", TRUE)
             /\ calls' = [calls EXCEPT ![c] =
                   SetTop(@, [Top(c) EXCEPT !.conn = id,
                                            !.deferred = DeferClose(id),
                                            !.pc = "ReadShellStatus"])]
          \/ /\ conns' = CloseConn(Use(conns, id, calls[c], "send shell", FALSE),
                                   DeferClose(id))
             /\ calls' = [calls EXCEPT ![c] =
                   ReturnFrom(@, NoConn, wrapClientError(ErrSend, TheDevice, label))]
    /\ UNCHANGED <<device, notDeviceVars>>

\* conn.ReadStatus(req)
Shell_ReadStatus(c) ==
    /\ At(c, ShellFns, "ReadShellStatus")
    /\ LET id == Top(c).conn
           label == ShellLabel(Top(c).fn)
       IN \/ /\ conns' = Use(conns, id, calls[c], "read shell status", TRUE)
             /\ calls' = [calls EXCEPT ![c] =
                   SetTop(@, [Top(c) EXCEPT !.pc = "ReadStream"])]
          \/ /\ conns' = CloseConn(Use(conns, id, calls[c], "read shell status", FALSE),
                                   Top(c).deferred)
             /\ calls' = [calls EXCEPT ![c] =
                   ReturnFrom(@, NoConn, wrapClientError(ErrStatus, TheDevice, label))]
    /\ UNCHANGED <<device, notDeviceVars>>

\* The error the operation returns for the stream's error: line 128 wraps it,
\* line 171 returns it as it is.
StreamError(fn, err) ==
    IF fn = "RunCommand" THEN wrapClientError(err, TheDevice, "RunCommand") ELSE err

\* conn.ReadUntilEof() or conn.ReadUntilEofV2WithStd(stdout, stderr), and the
\* return with its deferred Close.
Shell_ReadStream(c) ==
    /\ At(c, ShellFns, "ReadStream")
    /\ LET id == Top(c).conn
           fn == Top(c).fn
       IN \E err \in {Nil, ErrRead} \cup (IF fn = "RunCommand" THEN {} ELSE {ErrDecode}) :
             /\ conns' = CloseConn(Use(conns, id, calls[c], "read stream", err.isNil),
                                   Top(c).deferred)
             /\ calls' = [calls EXCEPT ![c] = ReturnFrom(@, NoConn, StreamError(fn, err))]
    /\ UNCHANGED <<device, notDeviceVars>>

\* ---- Remount, lines 185-194 ----
\* dialDevice has returned; defer conn.Close(); conn.RoundTripSingleResponse
Remount_RoundTrip(c) ==
    /\ At(c, {"Remount"}, "RoundTrip")
    /\ LET id == calls[c].ret.val
       IN \E err \in {Nil, ErrStatus} :
             /\ conns' = CloseConn(Use(conns, id, calls[c], "remount", err.isNil),
                                   DeferClose(id))
             /\ calls' = [calls EXCEPT ![c] =
                   ReturnFrom(@, NoConn, wrapClientError(err, TheDevice, "Remount"))]
    /\ UNCHANGED <<device, notDeviceVars>>

\* ---- ListDirEntries, Stat, OpenRead, OpenWrite, lines 196-239 ----
SyncRequest(fn) ==
    CASE fn = "ListDirEntries" -> "LIST"
      [] fn = "Stat" -> "STAT"
      [] fn = "OpenRead" -> "RECV"
      [] fn = "OpenWrite" -> "SEND"

\* getSyncConn has returned; the request of the operation on the sync
\* connection.  Only Stat defers a Close; the others hand the connection to
\* the entries, reader or writer they return.
Sync_Request(c) ==
    /\ At(c, SyncOps, "Request")
    /\ LET id == calls[c].ret.val
           fn == Top(c).fn
       IN \E err \in {Nil, ErrStatus} :
             /\ conns' = CloseConn(Use(conns, id, calls[c], SyncRequest(fn), err.isNil),
                                   IF fn = "Stat" THEN DeferClose(id) ELSE NoConn)
             /\ calls' = [calls EXCEPT ![c] =
                   ReturnFrom(@, IF err.isNil THEN id ELSE NoConn,
                              wrapClientError(err, TheDevice, fn))]
    /\ UNCHANGED <<device, notDeviceVars>>

\* ---- Pull, lines 313-333 ----
\* Stat has returned; c.OpenRead(remotePath)
Pull_OpenRead(c) ==
    /\ At(c, {"Pull"}, "OpenRead")
    /\ calls' = [calls EXCEPT ![c] =
          Enter(@, [Top(c) EXCEPT !.pc = "CopyN"],
                GetSyncConnFrames \o <<Frame("OpenRead", "Request")>>)]
    /\ UNCHANGED <<device, conns, notDeviceVars>>

\* OpenRead has returned; defer remoteFile.Close(); io.CopyN
Pull_CopyN(c) ==
    /\ At(c, {"Pull"}, "CopyN")
    /\ LET id == calls[c].ret.val
       IN \E err \in {Nil, ErrCopy} :
             /\ conns' = CloseConn(Use(conns, id, calls[c], "read DATA", err.isNil),
                                   DeferClose(id))
             /\ calls' = [calls EXCEPT ![c] = ReturnFrom(@, NoConn, err)]
    /\ UNCHANGED <<device, notDeviceVars>>

\* ---- Push, lines 335-352 ----
\* OpenWrite has returned; defer writer.Close(); io.Copy(writer, localFile)
Push_Copy(c) ==
    /\ At(c, {"Push"}, "Copy")
    /\ LET id == calls[c].ret.val
       IN \E err \in {Nil, ErrCopy} :
             /\ conns' = Use(conns, id, calls[c], "send DATA", err.isNil)
             /\ calls' = [calls EXCEPT ![c] =
                   SetTop(@, [Top(c) EXCEPT !.conn = id, !.deferred = id,
                                            !.pending = err,
                                            !.pc = "DeferredClose"])]
    /\ UNCHANGED <<device, notDeviceVars>>

\* What Push returns once the deferred writer.Close() has returned closeErr:
\* line 347 drops closeErr.
PushReturns(pending, closeErr) == pending

\* The deferred writer.Close(): it sends DONE, reads the server's answer and
\* closes the connection; then Push returns.
Push_DeferredClose(c) ==
    /\ At(c, {"Push"}, "DeferredClose")
    /\ LET id == Top(c).conn
       IN \E ack \in {"OKAY", "FAIL"} :
             /\ conns' = CloseConn(Use(conns, id, calls[c], "send DONE", ack = "OKAY"),
                                   Top(c).deferred)
             /\ calls' = [calls EXCEPT ![c] =
                   ReturnFrom([@ EXCEPT !.acked = ack], NoConn,
                              PushReturns(Top(c).pending,
                                          IF ack = "OKAY" THEN Nil ELSE ErrDone))]
    /\ UNCHANGED <<device, notDeviceVars>>

\* ---- Serial, DevicePath, State, lines 39-59 ----
\* roundTripSingleResponse(c.server, req): a connection of its own, dialed,
\* used for the request and its answer, and closed.
RoundTrip(cs, call, ok) ==
    CloseConn(Use(Dialed(cs, call), DialedConn(cs, call), call, "round trip", ok),
              DialedConn(cs, call))

\* c.getAttribute(...), and the return of the operation
Attribute_Get(c) ==
    /\ At(c, AttributeOps, "GetAttribute")
    /\ LET fn == Top(c).fn
       IN \E err \in {Nil, ErrStatus} \cup (IF fn = "State" THEN {ErrUnauthorized} ELSE {}) :
          \E attr \in IF fn = "State" /\ err.isNil THEN StateBodies ELSE {""} :
             /\ conns' = RoundTrip(conns, calls[c], err.isNil)
             /\ calls' = [calls EXCEPT ![c] =
                   ReturnFrom(@, NoConn,
                      IF fn = "State" THEN DeviceState(TheDevice, attr, err).err
                      ELSE wrapClientError(err, TheDevice, fn))]
    /\ UNCHANGED <<device, notDeviceVars>>

\* ---- DeviceInfo, lines 61-83 ----
\* Serial has returned; c.deviceListFunc() and the search of the list
DeviceInfo_ListDevices(c) ==
    /\ At(c, {"DeviceInfo"}, "ListDevices")
    /\ \E outcome \in {"listed", "not listed", "error"} :
          /\ conns' = RoundTrip(conns, calls[c], outcome # "error")
          /\ calls' = [calls EXCEPT ![c] =
                ReturnFrom(@, NoConn,
                   CASE outcome = "listed" -> Nil
                     [] outcome = "not listed" ->
                           wrapClientError(ErrNotInList, TheDevice, "DeviceInfo")
                     [] outcome = "error" ->
                           wrapClientError(ErrListDevices, TheDevice,
                                           "DeviceInfo(ListDevices)"))]
    /\ UNCHANGED <<device, notDeviceVars>>

NextDevice ==
    \E c \in Clients :
        \/ Call(c)
        \/ dialDevice(c)
        \/ getSyncConn(c)
        \/ Shell_SendRequest(c)
        \/ Shell_ReadStatus(c)
        \/ Shell_ReadStream(c)
        \/ Remount_RoundTrip(c)
        \/ Sync_Request(c)
        \/ Pull_OpenRead(c)
        \/ Pull_CopyN(c)
        \/ Push_Copy(c)
        \/ Push_DeferredClose(c)
        \/ Attribute_Get(c)
        \/ DeviceInfo_ListDevices(c)

SpecDevice == InitDevice /\ [][NextDevice]_vars


\* ---- properties of the operations ----
Returned(c) == calls[c].status = "returned"
Conn(r) == ConnAt(conns, r)
ConnsOf(c) == {r \in ConnRefs(conns) : Conn(r).owner = c}
Steps(r) == [k \in 1..Len(Conn(r).log) |-> Conn(r).log[k].step]
AllOk(log) == \A k \in 1..Len(log) : log[k].ok

\* C13: for any interleaving of concurrent operations on the same Device,
\* every step on a connection is made by the operation that dialed it, so no
\* connection is used by two operations, and the Device holds no connection:
\* its fields stay what they were when no operation had been called.
C13_ConnectionsNotShared ==
    /\ \A r \in ConnRefs(conns) :
          \A k \in 1..Len(Conn(r).log) : Conn(r).log[k].by = Conn(r).owner
    /\ device = DeviceFields

\* Two operations in flight at once, each with an open connection it has
\* already used.
C13_Witness ==
    \E c1, c2 \in Clients :
        /\ c1 # c2 /\ Running(c1) /\ Running(c2)
        /\ \E i \in ConnsOf(c1), j \in ConnsOf(c2) :
              /\ Conn(i).open /\ Conn(j).open
              /\ Conn(i).log # <<>> /\ Conn(j).log # <<>>


\* C14: dialDevice returns an open connection only when the host:<transport>
\* request was sent and answered OKAY; when sending it fails or the status is
\* not OKAY, the dialed connection is closed when the error is returned; when
\* the dial itself fails there is no connection.
C14_DialDeviceClosesOnFailure ==
    [][\A c \in Clients :
          (At(c, {"dialDevice"}, "Dial") /\ calls'[c] # calls[c]) =>
             LET new == ConnRefs(conns') \ ConnRefs(conns)
                 ret == calls'[c].ret
             IN IF ret.err.isNil
                THEN /\ ret.val \in new
                     /\ ConnAt(conns', ret.val).open
                     /\ ConnAt(conns', ret.val).log =
                           << [step |-> "send host:transport", by |-> c, ok |-> TRUE],
                              [step |-> "read transport status", by |-> c, ok |-> TRUE] >>
                ELSE /\ ret.val = NoConn
                     /\ \A r \in new :
                           /\ ~ConnAt(conns', r).open
                           /\ ~AllOk(ConnAt(conns', r).log)
                     /\ (new = {}) <=> (ret.err.Text = ErrDial.Text)
    ]_vars

\* The status of the transport request was not OKAY: the operation has
\* returned and the connection it had dialed is closed.
C14_Witness ==
    \E c \in Clients :
        /\ Returned(c)
        /\ \E r \in ConnsOf(c) :
              /\ ~Conn(r).open
              /\ Steps(r) = <<"send host:transport", "read transport status">>
              /\ ~Conn(r).log[2].ok


\* Whether an error carries the operation and the device it was returned for.
IsWrapped(err) == "Op" \in DOMAIN err

\* Whether the label of a wrapped error names the operation: its own name,
\* or one of the labels its code uses.
Names(label, op) ==
    \/ label = op
    \/ op = "RunCommandV2" /\ label = "RunCommand"
    \/ op = "DeviceInfo" /\ label \in {"GetDeviceInfo(GetSerial)", "DeviceInfo(ListDevices)"}

\* C15: every error returned by a public Device operation is wrapped with the
\* name of that operation and the device descriptor, whichever step failed.
\* The code does not do this.
C15_EveryErrorWrapped ==
    \A c \in Clients :
        (Returned(c) /\ ~calls[c].ret.err.isNil) =>
            /\ IsWrapped(calls[c].ret.err)
            /\ Names(calls[c].ret.err.Op, calls[c].op)
            /\ calls[c].ret.err.Device = device.descriptor

\* C16: Push returns a non-nil error whenever the transfer does not succeed,
\* the server answering the final DONE with FAIL included; it returns nil only
\* if the server acknowledged the transfer with OKAY.  The code does not do
\* this.
C16_PushNilOnlyWhenAcknowledged ==
    \A c \in Clients :
        (Returned(c) /\ calls[c].op = "Push" /\ calls[c].ret.err.isNil) =>
            calls[c].acked = "OKAY"

\* The steps of a shell operation on its connection, in order.
ShellSteps ==
    <<"send host:transport", "read transport status",
      "send shell", "read shell status", "read stream">>

\* C17: in RunCommand and RunCommandV2WithStd the steps on the dialed
\* connection are, in order: send host:<transport>, read status, send the
\* shell request, read status, read the stream to EOF; a step is made only if
\* every step before it succeeded, so nothing follows a failed step.
C17_ShellStepsInOrder ==
    \A r \in ConnRefs(conns) :
        Conn(r).op \in ShellOps =>
            /\ Len(Conn(r).log) <= Len(ShellSteps)
            /\ Steps(r) = SubSeq(ShellSteps, 1, Len(Conn(r).log))
            /\ \A k \in 1..(Len(Conn(r).log) - 1) : Conn(r).log[k].ok

\* RunCommandV2 went through all five steps and the stream decoded.
C17_Witness ==
    \E c \in Clients :
        /\ Returned(c) /\ calls[c].op = "RunCommandV2" /\ calls[c].ret.err.isNil
        /\ \E r \in ConnsOf(c) : Steps(r) = ShellSteps /\ AllOk(Conn(r).log)

\* C18: whenever RunCommand, RunCommandV2WithStd or Remount has returned, on
\* success and on every failure path, every connection dialed during the call
\* is closed.
C18_ShellConnectionsClosed ==
    \A c \in Clients :
        (Returned(c) /\ calls[c].op \in ShellOps \cup {"Remount"}) =>
            \A r \in ConnsOf(c) : ~Conn(r).open

\* RunCommandV2 returned the decoder's error, and RunCommand returned
\* because the shell request was refused; both connections are closed.
C18_Witness ==
    \E c1, c2 \in Clients :
        /\ Returned(c1) /\ calls[c1].op = "RunCommandV2"
        /\ calls[c1].ret.err = ErrDecode
        /\ \E r \in ConnsOf(c1) : Steps(r) = ShellSteps /\ ~Conn(r).open
        /\ Returned(c2) /\ calls[c2].op = "RunCommand"
        /\ \E r \in ConnsOf(c2) :
              /\ Len(Conn(r).log) = 4 /\ ~Conn(r).log[4].ok /\ ~Conn(r).open

\* C20: when getSyncConn has dialed the device but sending sync: fails or its
\* status is not OKAY, the dialed connection is closed when the error is
\* returned, so a failed Stat, ListDirEntries, OpenRead or OpenWrite leaves no
\* connection open.  The code does not do this.
C20_SyncFailureClosesConnection ==
    \A c \in Clients :
        Returned(c) =>
            \A r \in ConnsOf(c) :
                LET log == Conn(r).log
                IN (/\ log # <<>>
                    /\ Last(log).step \in {"send sync:", "read sync status"}
                    /\ ~Last(log).ok) => ~Conn(r).open


-----------------------------------------------------------------------------
(***************************************************************************)
(* DecodeDataFromReader, src/device.go:775-851.  The reader returns the    *)
(* stream in chunks, one per Read, and then io.EOF; whether io.EOF comes   *)
(* with the last chunk or after it leads to the same return (lines 790     *)
(* and 845).                                                               *)
(***************************************************************************)
MaxStreamPkts == 2
MaxCuts == 2

\* The packets and the tails the streams are made of.
StreamPackets ==
    {Packet(1, <<42>>), Packet(2, <<7>>), Packet(3, <<1>>), Packet(3, <<>>), Packet(4, <<>>)}
StreamTails == {<<>>, <<1, 1>>}

\* The chunks of stream d cut after the bytes at the places of cuts.
RECURSIVE ChunksFrom(_, _, _)
ChunksFrom(d, from, cuts) ==
    IF cuts = <<>> THEN <<Slice(d, from, Len(d))>>
    ELSE <<Slice(d, from, Head(cuts))>> \o ChunksFrom(d, Head(cuts), Tail(cuts))

\* The inner for loop (lines 796-842) on one chunk, from the offset and
\* with the exit code and output the function has at that point:
\* what they are when the loop ends, or what the function returns.
Goes(offset, exitCode, out, errOut) ==
    [returned |-> FALSE, offset |-> offset, exitCode |-> exitCode, err |-> "nil",
     stdout |-> out, stderr |-> errOut]
Returns(exitCode, err, out, errOut) ==
    [returned |-> TRUE, offset |-> 0, exitCode |-> exitCode, err |-> err,
     stdout |-> out, stderr |-> errOut]

RECURSIVE ChunkLoop(_, _, _, _, _, _, _)
ChunkLoop(d, so, se, offset, exitCode, out, errOut) ==
    IF ~(offset < Len(d)) THEN Goes(offset, exitCode, out, errOut)
    ELSE IF HeaderTruncated(d, offset)
    THEN Goes(offset, exitCode,
              IF so = "ok" THEN out \o Rest(d, offset) ELSE out, errOut)
    ELSE
      LET packetId == d[offset + 1]
          dataLen  == LittleEndianUint32(Slice(d, offset + 1, offset + 5))
      IN IF BodyTruncated(d, offset, dataLen)
         THEN Goes(offset, exitCode,
                   IF so = "ok" THEN out \o Rest(d, offset) ELSE out, errOut)
         ELSE
           LET packetData == Slice(d, offset + 5, offset + 5 + dataLen)
               next       == offset + 5 + dataLen
           IN IF ~KnownId(packetId)
              THEN Returns(0, "ParseError", out, errOut)
              ELSE CASE packetId = 1 ->
                          IF so = "nil"
                          THEN ChunkLoop(d, so, se, next, exitCode, out, errOut)
                          ELSE IF so = "fail"
                          THEN Returns(exitCode, "WriteError", out, errOut)
                          ELSE ChunkLoop(d, so, se, next, exitCode,
                                         out \o packetData, errOut)
                     [] packetId = 2 ->
                          IF se = "nil"
                          THEN ChunkLoop(d, so, se, next, exitCode, out, errOut)
                          ELSE IF se = "fail"
                          THEN Returns(exitCode, "WriteError", out, errOut)
                          ELSE ChunkLoop(d, so, se, next, exitCode,
                                         out, errOut \o packetData)
                     [] OTHER ->
                          ChunkLoop(d, so, se, next,
                                    ExitCodeOf(exitCode, packetData), out, errOut)

\* The outer loop (lines 783-848): one Read per chunk; offset, declared
\* outside the loop (line 777), keeps its value from chunk to chunk.
RECURSIVE ReadLoop(_, _, _, _, _, _, _)
ReadLoop(chunks, so, se, offset, exitCode, out, errOut) ==
    IF chunks = <<>> THEN Result(exitCode, "nil", out, errOut)
    ELSE LET r == ChunkLoop(Head(chunks), so, se, offset, exitCode, out, errOut)
         IN IF r.returned THEN Result(r.exitCode, r.err, r.stdout, r.stderr)
            ELSE ReadLoop(Tail(chunks), so, se, r.offset, r.exitCode,
                          r.stdout, r.stderr)

DecodeDataFromReader(chunks, so, se) == ReadLoop(chunks, so, se, 0, 0, <<>>, <<>>)

InitReader ==
    /\ IdleDecode /\ IdleDiff /\ IdleWatcher /\ IdleClose /\ IdlePull /\ IdleWriteFully
    /\ IdleAdbErr /\ IdleState /\ IdleCmdLine /\ IdleDevice
    /\ \E n \in 0..MaxStreamPkts, k \in 0..MaxCuts :
          \E ps \in [1..n -> StreamPackets], t \in StreamTails :
             LET d == EncodePackets(ps) \o t
             IN \E cuts \in [1..k -> 1..(Len(d) - 1)] :
                   /\ \A i \in 1..(k - 1) : cuts[i] < cuts[i + 1]
                   /\ readerCall = [called |-> FALSE, stream |-> d,
                                    chunks |-> IF d = <<>> THEN <<>>
                                               ELSE ChunksFrom(d, 0, cuts)]

\* A call of DecodeDataFromReader on a reader that returns the chunks, with
\* two writers that accept everything.
CallDecodeDataFromReader ==
    /\ ~readerCall.called
    /\ readerCall' = [called |-> TRUE, stream |-> readerCall.stream,
                      chunks |-> readerCall.chunks,
                      result |-> DecodeDataFromReader(readerCall.chunks, "ok", "ok")]
    /\ UNCHANGED notReaderVars

NextReader == CallDecodeDataFromReader

SpecReader == InitReader /\ [][NextReader]_vars

\* C19: for every byte stream and every way of splitting it into the chunks
\* the reader returns, DecodeDataFromReader produces the same stdout bytes,
\* stderr bytes, exit code and error as DecodeV2Data on the whole stream.  The
\* code does not do this.
C19_ReaderDecodesLikeWhole ==
    readerCall.called =>
        readerCall.result = DecodeV2Data(readerCall.stream, "ok", "ok")


\* ---------------------------------------------------------------------------
\* Pull: the bytes it copies.  Pull asks the size of the remote file in one
\* sync session (Stat), opens the file in a second one (OpenRead) and copies
\* info.Size bytes of the second session's stream to localFile.  The file on
\* the device can be rewritten by the device at any moment.
\* ---------------------------------------------------------------------------
MaxFileLen == 2
MaxChanges == 1

FileBytes == {"a", "b"}

FileContents == UNION {[1..k -> FileBytes] : k \in 0..MaxFileLen}

ErrEOF == Err("EOF", <<>>)

Min(a, b) == IF a < b THEN a ELSE b

\* io.CopyN(dst, src, n): copies n bytes of src, or all of src and io.EOF
\* when src ends before n bytes.
CopyN(src, n) ==
    LET k == Min(n, Len(src))
    IN  [written |-> SubSeq(src, 1, k),
         err     |-> IF k = n THEN Nil ELSE ErrEOF]

InitPull ==
    /\ IdleDecode /\ IdleDiff /\ IdleWatcher /\ IdleClose /\ IdleWriteFully
    /\ IdleAdbErr /\ IdleState /\ IdleCmdLine /\ IdleDevice
    /\ IdleReader
    /\ remoteFile \in FileContents
    /\ pullPc = "Stat"
    /\ statSize = 0
    /\ recvStream = <<>>
    /\ localFile = <<>>
    /\ pullRet = NotCalled
    /\ nChanges = 0

\* The device rewrites the file; Pull has no part in this step.
RemoteFileChanges ==
    /\ nChanges < MaxChanges
    /\ pullPc \in {"Stat", "OpenRead"}
    /\ \E f \in FileContents :
          /\ f # remoteFile
          /\ remoteFile' = f
    /\ nChanges' = nChanges + 1
    /\ UNCHANGED <<pullPc, statSize, recvStream, localFile, pullRet>>

\* info, err := c.Stat(remotePath)
Pull_Stat ==
    /\ pullPc = "Stat"
    /\ \/ /\ statSize' = Len(remoteFile)
          /\ pullPc' = "OpenRead"
          /\ UNCHANGED pullRet
       \/ /\ pullPc' = "returned"
          /\ pullRet' = wrapClientError(ErrStatus, TheDevice, "Stat")
          /\ UNCHANGED statSize
    /\ UNCHANGED <<remoteFile, recvStream, localFile, nChanges>>

\* remoteFile, err := c.OpenRead(remotePath): the stream is the file as the
\* device sends it in this session.
Pull_OpenReadStream ==
    /\ pullPc = "OpenRead"
    /\ \/ /\ recvStream' = remoteFile
          /\ pullPc' = "CopyN"
          /\ UNCHANGED pullRet
       \/ /\ pullPc' = "returned"
          /\ pullRet' = wrapClientError(ErrStatus, TheDevice, "OpenRead")
          /\ UNCHANGED recvStream
    /\ UNCHANGED <<remoteFile, statSize, localFile, nChanges>>

\* io.CopyN(localFile, remoteFile, int64(info.Size)), and the return.
Pull_CopyBytes ==
    /\ pullPc = "CopyN"
    /\ LET r == CopyN(recvStream, statSize)
       IN  /\ localFile' = localFile \o r.written
           /\ pullRet' = r.err
    /\ pullPc' = "returned"
    /\ UNCHANGED <<remoteFile, statSize, recvStream, nChanges>>

NextPull ==
    /\ \/ RemoteFileChanges
       \/ Pull_Stat
       \/ Pull_OpenReadStream
       \/ Pull_CopyBytes
    /\ UNCHANGED notPullVars

SpecPull == InitPull /\ [][NextPull]_vars

\* C22: Pull returns nil only when the bytes written to localFile are exactly
\* the whole byte sequence the RECV stream it opened delivered, also when the
\* size of the remote file changes between the STAT session and the RECV
\* session.  The code does not do this.
C22_PullNilOnlyWhenComplete ==
    (pullPc = "returned" /\ pullRet = Nil) => localFile = recvStream


\* ---------------------------------------------------------------------------
\* writeFully: writes data to w, calling Write again with the rest after a
\* partial write.  One action per turn of its loop; the writer chooses how
\* many bytes of the slice it accepts and whether it reports an error.
\* ---------------------------------------------------------------------------
MaxDataLen == 3
MaxStalls == 2

\* The error of a writer.
ErrWriter == Err("error", <<"write">>)

\* errors.WrapErrorf(err, errors.NetworkError, "error writing %d bytes at
\* offset %d", len(data), offset)
WrapErrorf(err, code, length, offset) ==
    [isNil |-> FALSE, Code |-> code, Text |-> <<"writing", length, offset>>,
     Cause |-> err]

\* offset += n
NextOffsetStuck(offset, n) == offset
NextOffset(offset, n) == offset + n

InitWriteFully ==
    /\ IdleDecode /\ IdleDiff /\ IdleWatcher /\ IdleClose
    /\ IdleAdbErr /\ IdleState /\ IdleCmdLine /\ IdleDevice
    /\ IdleReader /\ IdlePull
    /\ \E k \in 0..MaxDataLen : wData \in [1..k -> {"a", "b"}]
    /\ wOffset = 0
    /\ wPc = "loop"
    /\ wRet = NotCalled
    /\ writes = <<>>

\* One turn of the loop: w.Write(data[offset:]) returns n and err.  A writer
\* may accept no byte and report no error; the model follows it through
\* MaxStalls such calls.
WriteFully_Write ==
    /\ wPc = "loop"
    /\ wOffset < Len(wData)
    /\ Len(writes) < MaxDataLen + MaxStalls
    /\ LET p == Slice(wData, wOffset, Len(wData))
       IN  \E n \in 0..Len(p), err \in {Nil, ErrWriter} :
              /\ writes' = Append(writes, [p |-> p, n |-> n, err |-> err])
              /\ IF ~err.isNil
                 THEN /\ wRet' = WrapErrorf(err, "NetworkError",
                                            Len(wData), wOffset)
                      /\ wPc' = "returned"
                      /\ UNCHANGED wOffset
                 ELSE /\ wOffset' = NextOffset(wOffset, n)
                      /\ UNCHANGED <<wPc, wRet>>
    /\ UNCHANGED wData

\* The loop ends: return nil.
WriteFully_Return ==
    /\ wPc = "loop"
    /\ ~(wOffset < Len(wData))
    /\ wRet' = Nil
    /\ wPc' = "returned"
    /\ UNCHANGED <<wData, wOffset, writes>>

NextWriteFully ==
    /\ \/ WriteFully_Write
       \/ WriteFully_Return
    /\ UNCHANGED notWriteFullyVars

SpecWriteFully == InitWriteFully /\ [][NextWriteFully]_vars

\* writeFully runs to its next statement whenever it can: a Write call that
\* was made returns.
FairWriteFully == SpecWriteFully /\ WF_vars(NextWriteFully)

\* The bytes the writer accepted in the first k Write calls, in order.
RECURSIVE Accepted(_, _)
Accepted(ws, k) ==
    IF k = 0 THEN <<>>
    ELSE Accepted(ws, k - 1) \o SubSeq(ws[k].p, 1, ws[k].n)

\* A Write call that accepted no byte and reported no error.
Stalled == \E i \in 1..Len(writes) : writes[i].n = 0 /\ writes[i].err.isNil

\* Every Write call was handed the bytes after those already accepted, and
\* no call follows one that reported an error.
WritesResume ==
    \A i \in 1..Len(writes) :
        /\ Accepted(writes, i - 1) \o writes[i].p = wData
        /\ i < Len(writes) => writes[i].err.isNil

\* What writeFully returned: nil after all of data was accepted, and a
\* NetworkError exactly when the last Write call reported an error.
WriteFullyReturns ==
    wPc = "returned" =>
        IF wRet.isNil
        THEN Accepted(writes, Len(writes)) = wData
        ELSE /\ wRet.Code = "NetworkError"
             /\ writes # <<>>
             /\ ~writes[Len(writes)].err.isNil

\* C23: writeFully returns nil only after the writer accepted every byte of
\* data, in order and each once, each Write call being handed the bytes just
\* after those already accepted; at the first error of the writer it makes no
\* further Write call and returns a NetworkError; and it returns whenever
\* every Write call accepts at least one byte or reports an error.
C23_WriteFully ==
    /\ [](WritesResume /\ WriteFullyReturns)
    /\ <>(wPc = "returned" \/ Stalled)

\* writeFully returned nil after a partial write and a second Write call that
\* took the rest.
C23_Witness ==
    /\ wPc = "returned"
    /\ wRet = Nil
    /\ Len(writes) = 2
    /\ writes[1].n > 0
    /\ writes[1].n < Len(wData)

====
